---- MODULE Spec2Model ----
(***************************************************************************)
(* The error-recovery and fix-approval pipeline of the assistant:          *)
(*   - the approvals router (approveFix, rejectFix) and the Fix Executor   *)
(*     (executeProposedFix) of modules/approvals/server/procedures.ts;     *)
(*   - the error-handling path (handleError, analyzeError, generateFix) of *)
(*     the inngest function kept in projects/ui/components/usage.tsx.      *)
(* The durable store (Message/Fragment, ErrorLog, ProposedFix tables) is   *)
(* the only thing tasks share.  Every awaited store, sandbox or reasoning  *)
(* call is one step of the task that makes it, so that tasks interleave    *)
(* exactly at the code's suspension points.                                *)
(***************************************************************************)
EXTENDS Integers, Sequences, FiniteSets, TLC

\* ------------------------------------------------------------------ bounds
\* Reviewer calls (approveFix / rejectFix) started in one behaviour.
MaxCalls == 2
\* handleError runs started in one behaviour.
MaxAttempts == 1
\* Availability checks of AvatarProvider in flight at the same time.
MaxInFlight == 2
\* Window messages and parent re-renders AvatarAgent sees in one behaviour.
MaxEvents == 3

\* ------------------------------------------------------- program constants
\* Confidence scores are kept in tenths: 7 is 0.7, 8 is 0.8.
DiagnosisThreshold == 7
AutoFixThreshold == 8

\* ------------------------------------------------------------- identities
Users == {"u1", "u2"}
Projects == {"p1", "p2"}
\* project.userId of each project row
ProjectOwner == [p \in Projects |-> IF p = "p1" THEN "u1" ELSE "u2"]
\* The two reviewer tasks that may be in flight at the same time.
Tasks == {"t1", "t2"}
TaskRank == [t \in Tasks |-> IF t = "t1" THEN 1 ELSE 2]

\* ------------------------------------------------------------------ values
\* The JavaScript value undefined of an optional string input.
Undefined == "<undefined>"
\* Feedback texts a caller may send.
Feedbacks == {Undefined, "", "why"}
\* JavaScript truthiness of an optional string.
Truthy(s) == s # Undefined /\ Len(s) > 0

\* A message without a fragment row (message.fragment is null).
NoFragment == [present |-> FALSE]
Fragment(url) == [present |-> TRUE, sandboxUrl |-> url]
\* Sandbox URLs are sequences of characters.
SandboxUrls == { <<>>, <<".", "h">>, <<"s", ".", "h">> }

\* String.prototype.split('.')[0]: the characters before the first dot.
RECURSIVE SplitDotFirst(_)
SplitDotFirst(url) ==
  IF url = <<>> \/ Head(url) = "." THEN <<>>
  ELSE <<Head(url)>> \o SplitDotFirst(Tail(url))

\* fixData payloads (JSON).  A list that is absent is the field left out.
CommandFix(cmds) == [type |-> "command", commands |-> cmds]
FileChangeFix(fs) == [type |-> "fileChange", files |-> fs]
MultiStepFix(cmds, fs) == [type |-> "multiStep", commands |-> cmds, files |-> fs]
Payloads ==
  { CommandFix(<<"c1", "c2">>),
    FileChangeFix(<<"f1">>),
    MultiStepFix(<<"c1">>, <<"f1">>),
    [type |-> "note"] }

HasField(r, f) == f \in DOMAIN r

\* The JSON value null as a payload.
NullPayload == [isNull |-> TRUE]
\* Payloads handed to executeProposedFix directly: the above, longer and
\* empty lists, lists left out, and null.
ExecPayloads ==
  Payloads \cup
  { CommandFix(<< >>),
    FileChangeFix(<<"f1", "f2">>),
    MultiStepFix(<<"c1", "c2">>, <<"f1", "f2">>),
    [type |-> "command"],
    [type |-> "fileChange"],
    [type |-> "multiStep", files |-> <<"f1">>],
    [type |-> "multiStep"],
    NullPayload }

\* The optional sandboxId argument: left out, the empty string, or an id.
UndefinedId == << Undefined >>
SandboxIds == { UndefinedId, << >>, <<"s">> }
\* !sandboxId is false
HasSandboxId(sandboxId) == sandboxId # UndefinedId /\ sandboxId # << >>

\* ------------------------------------------------------------------- state
VARIABLES
  message,      \* Message table with its Fragment relation, in creation order
  errorLog,     \* ErrorLog table, in creation order
  proposedFix,  \* ProposedFix table, in creation order
  clock,        \* the store's wall clock (new Date())
  call,         \* the reviewer tasks: one approveFix / rejectFix call each
  started,      \* reviewer calls started so far
  handler,      \* the handleError task
  attempts,     \* handleError runs started so far
  execStarted,  \* per fix: executeProposedFix invocations
  execSucceeded, \* per fix: executeProposedFix runs that returned success
  provider,     \* the AvatarProvider component
  avatar        \* the AvatarAgent component

vars == << message, errorLog, proposedFix, clock, call, started, handler,
           attempts, execStarted, execSucceeded, provider, avatar >>

store == << message, errorLog, proposedFix >>
\* The server side, which the client components do not touch.
server == << message, errorLog, proposedFix, clock, call, started, handler,
             attempts, execStarted, execSucceeded >>
\* The client components, which the server side does not touch.
ui == << provider, avatar >>

\* ------------------------------------------------------------ Fix Executor
\* The awaited steps executeProposedFix goes through for a payload, in the
\* order the code reaches them.  "throw" is a fault raised by the executor's
\* own code (the missing sandbox id, or iterating a list that is absent);
\* every other step is a sandbox call, which may fail when it is made.
JsError(name, msg) == [name |-> name, message |-> msg]
\* Error.prototype.toString(): "<name>: <message>".
ErrorToString(e) == e.name \o ": " \o e.message
\* What a sandbox call that fails throws.
SandboxFault == JsError("Error", "sandbox fault")
Throw(e) == [op |-> "throw", arg |-> e]
SandboxOp(kind, x) == [op |-> kind, arg |-> x]
RunAll(cmds) == [i \in 1..Len(cmds) |-> SandboxOp("run", cmds[i])]
WriteAll(fs) == [i \in 1..Len(fs) |-> SandboxOp("write", fs[i])]

\* The multiStep branch with the file writes made before the commands.
MultiStepOpsFilesFirst(fixData) ==
  (IF HasField(fixData, "files") THEN WriteAll(fixData.files) ELSE << >>) \o
  (IF HasField(fixData, "commands") THEN RunAll(fixData.commands) ELSE << >>)
\* The multiStep branch after the sandbox lookup: the commands, if the
\* payload has any, then the files, if it has any.
MultiStepOps(fixData) ==
  (IF HasField(fixData, "commands") THEN RunAll(fixData.commands) ELSE << >>) \o
  (IF HasField(fixData, "files") THEN WriteAll(fixData.files) ELSE << >>)

ExecutionPlan(fixData, sandboxId) ==
  IF fixData = NullPayload
  THEN << Throw(JsError("TypeError", "Cannot read properties of null")) >>
  ELSE
  CASE fixData.type = "command" ->
         IF ~HasSandboxId(sandboxId)
         THEN << Throw(JsError("Error", "Sandbox ID required for command execution")) >>
         ELSE << SandboxOp("getSandbox", sandboxId) >> \o
              (IF HasField(fixData, "commands") THEN RunAll(fixData.commands)
               ELSE << Throw(JsError("TypeError", "fixData.commands is not iterable")) >>)
    [] fixData.type = "fileChange" ->
         IF ~HasSandboxId(sandboxId)
         THEN << Throw(JsError("Error", "Sandbox ID required for file changes")) >>
         ELSE << SandboxOp("getSandbox", sandboxId) >> \o
              (IF HasField(fixData, "files") THEN WriteAll(fixData.files)
               ELSE << Throw(JsError("TypeError", "fixData.files is not iterable")) >>)
    [] fixData.type = "multiStep" ->
         IF ~HasSandboxId(sandboxId)
         THEN << Throw(JsError("Error", "Sandbox ID required for multi-step fixes")) >>
         ELSE << SandboxOp("getSandbox", sandboxId) >> \o MultiStepOps(fixData)
    [] OTHER -> << >>

ExecSuccess == [success |-> TRUE, error |-> Undefined]
ExecFailure(msg) == [success |-> FALSE, error |-> msg]

\* ------------------------------------------------------- approvals router
\* What findUnique returns: the fix row joined with its error log's message,
\* that message's project and fragment; null when no row has the id.
NullRow == [found |-> FALSE]
FindUnique(id) ==
  IF id \in DOMAIN proposedFix
  THEN LET fix == proposedFix[id]
           msg == message[errorLog[fix.errorLogId].messageId]
       IN [found |-> TRUE, status |-> fix.status, fixData |-> fix.fixData,
           reviewedBy |-> fix.reviewedBy,
           description |-> fix.description, projectId |-> msg.projectId,
           owner |-> ProjectOwner[msg.projectId], fragment |-> msg.fragment]
  ELSE NullRow

NoError == [code |-> "NONE", message |-> ""]
Ok == [code |-> "OK", message |-> ""]
TRPCError(c, m) == [code |-> c, message |-> m]

\* The zod input schemas: approveFix takes feedback: z.string().optional(),
\* rejectFix takes feedback: z.string().min(1).  tRPC answers an input that
\* fails its schema with BAD_REQUEST before the resolver runs.
ApproveInputValid(feedback) == TRUE
\* rejectFix's feedback declared like approveFix's: z.string().optional()
RejectInputOptional(feedback) == TRUE
RejectInputValid(feedback) == feedback # Undefined /\ Len(feedback) >= 1
InputValid(op, feedback) ==
  IF op = "approve" THEN ApproveInputValid(feedback) ELSE RejectInputValid(feedback)
ValidationError == TRPCError("BAD_REQUEST", "Input validation failed")

\* The checks with AUTO_FIXED left out of "already processed".
PreconditionsReviewedOnly(row, user) ==
  IF ~row.found THEN TRPCError("NOT_FOUND", "Proposed fix not found")
  ELSE IF row.owner # user THEN TRPCError("FORBIDDEN", "Not authorized")
  ELSE IF row.status \in {"APPROVED", "REJECTED"}
       THEN TRPCError("BAD_REQUEST", "Fix already processed")
  ELSE NoError
\* The checks without the status check.
PreconditionsSkipStatus(row, user) ==
  IF ~row.found THEN TRPCError("NOT_FOUND", "Proposed fix not found")
  ELSE IF row.owner # user THEN TRPCError("FORBIDDEN", "Not authorized")
  ELSE NoError
\* The checks with the status check made before the ownership check.
PreconditionsStatusFirst(row, user) ==
  IF ~row.found THEN TRPCError("NOT_FOUND", "Proposed fix not found")
  ELSE IF row.status # "PENDING" THEN TRPCError("BAD_REQUEST", "Fix already processed")
  ELSE IF row.owner # user THEN TRPCError("FORBIDDEN", "Not authorized")
  ELSE NoError
\* The checks refusing every fix a reviewer has already written to.
PreconditionsUnreviewedOnly(row, user) ==
  IF ~row.found THEN TRPCError("NOT_FOUND", "Proposed fix not found")
  ELSE IF row.owner # user THEN TRPCError("FORBIDDEN", "Not authorized")
  ELSE IF row.status # "PENDING" \/ row.reviewedBy # Undefined
       THEN TRPCError("BAD_REQUEST", "Fix already processed")
  ELSE NoError
\* The checks without the ownership check.
PreconditionsSkipOwner(row, user) ==
  IF ~row.found THEN TRPCError("NOT_FOUND", "Proposed fix not found")
  ELSE IF row.status # "PENDING" THEN TRPCError("BAD_REQUEST", "Fix already processed")
  ELSE NoError
\* The three precondition checks both resolvers make on the row they read.
Preconditions(row, user) ==
  IF ~row.found THEN TRPCError("NOT_FOUND", "Proposed fix not found")
  ELSE IF row.owner # user THEN TRPCError("FORBIDDEN", "Not authorized")
  ELSE IF row.status # "PENDING" THEN TRPCError("BAD_REQUEST", "Fix already processed")
  ELSE NoError

\* fragment?.sandboxUrl is truthy
HasSandboxUrl(row) == row.fragment.present /\ row.fragment.sandboxUrl # <<>>

IdleCall ==
  [pc |-> "idle", n |-> 0, peers |-> {}, op |-> "approve", fixId |-> 0,
   user |-> "u1", feedback |-> Undefined, snap |-> NullRow,
   projectId |-> "", rows |-> << >>,
   sandboxId |-> UndefinedId, todo |-> << >>, log |-> << >>,
   result |-> ExecSuccess, outcome |-> NoError, effects |-> {}]

InFlight(t) == call[t].pc \notin {"idle", "done"}
\* Requests are served by the first task that is free.
FirstFree(t) == ~InFlight(t) /\ \A u \in Tasks : ~InFlight(u) => TaskRank[t] <= TaskRank[u]
Peers(t) == { call[u].n : u \in { v \in Tasks \ {t} : InFlight(v) } }

\* Where a task goes on when executeProposedFix returns: approveFix to its
\* update; a direct invocation is over.
ReturnPc(c) == IF c.op = "execute" THEN "done" ELSE "update"
\* executeProposedFix(proposedFix, sandboxId) is entered by the task: the
\* steps up to its first awaited call.
Invoked(c, fixData, sandboxId) ==
  LET plan == ExecutionPlan(fixData, sandboxId)
  IN [c EXCEPT !.sandboxId = sandboxId, !.todo = plan, !.effects = {"exec"},
               !.pc = IF plan = << >> THEN ReturnPc(c) ELSE "exec"]

\* A request arrives: input validation, the findUnique read and the checks
\* made on its result, up to the resolver's next awaited call.
BeginCall(t, op, id, user, feedback) ==
  /\ FirstFree(t)
  /\ started < MaxCalls
  /\ started' = started + 1
  /\ LET row == FindUnique(id)
         err == IF InputValid(op, feedback) THEN Preconditions(row, user)
                ELSE ValidationError
         base == [IdleCall EXCEPT !.n = started + 1, !.peers = Peers(t),
                    !.op = op, !.fixId = id, !.user = user,
                    !.feedback = feedback,
                    !.snap = IF InputValid(op, feedback) THEN row ELSE NullRow]
         runs == op = "approve" /\ err = NoError /\ HasSandboxUrl(row)
         next == IF err # NoError
                 THEN [base EXCEPT !.pc = "done", !.outcome = err]
                 ELSE IF runs
                 THEN Invoked(base, row.fixData,
                              SplitDotFirst(row.fragment.sandboxUrl))
                 ELSE [base EXCEPT !.pc = "update"]
     IN /\ call' = [call EXCEPT ![t] = next]
        /\ execStarted' = IF runs THEN [execStarted EXCEPT ![id] = @ + 1]
                          ELSE execStarted
        /\ execSucceeded' = IF runs /\ next.pc # "exec"
                            THEN [execSucceeded EXCEPT ![id] = @ + 1]
                            ELSE execSucceeded
  /\ UNCHANGED << ui, store, clock, handler, attempts >>

ApproveFixBegin(t) ==
  \E id \in 1..(Len(proposedFix) + 1), user \in Users, feedback \in Feedbacks :
    BeginCall(t, "approve", id, user, feedback)

RejectFixBegin(t) ==
  \E id \in 1..(Len(proposedFix) + 1), user \in Users, feedback \in Feedbacks :
    BeginCall(t, "reject", id, user, feedback)

\* executeProposedFix called on its own with a fix of the store and a
\* sandboxId argument.
ExecuteProposedFix(t) ==
  /\ FirstFree(t)
  /\ started < MaxCalls
  /\ started' = started + 1
  /\ \E id \in DOMAIN proposedFix, sandboxId \in SandboxIds :
       LET base == [IdleCall EXCEPT !.n = started + 1, !.peers = Peers(t),
                      !.op = "execute", !.fixId = id, !.snap = FindUnique(id)]
           next == Invoked(base, proposedFix[id].fixData, sandboxId)
       IN /\ call' = [call EXCEPT ![t] = next]
          /\ execStarted' = [execStarted EXCEPT ![id] = @ + 1]
          /\ execSucceeded' = IF next.pc # "exec"
                              THEN [execSucceeded EXCEPT ![id] = @ + 1]
                              ELSE execSucceeded
  /\ UNCHANGED << ui, store, clock, handler, attempts >>

\* log is not a variable of the code: it records the sandbox calls the task
\* has made, in the order it made them, and how each ended.
Logged(step, ok) == [op |-> step.op, arg |-> step.arg, ok |-> ok]

\* One awaited step of executeProposedFix goes through.
ExecStepOk(t) ==
  /\ call[t].pc = "exec"
  /\ Head(call[t].todo).op # "throw"
  /\ LET rest == Tail(call[t].todo)
     IN /\ call' = [call EXCEPT
              ![t].todo = rest,
              ![t].log = Append(@, Logged(Head(call[t].todo), TRUE)),
              ![t].pc = IF rest = << >> THEN ReturnPc(call[t]) ELSE "exec"]
        /\ execSucceeded' = IF rest = << >> /\ call[t].result.success
                            THEN [execSucceeded EXCEPT ![call[t].fixId] = @ + 1]
                            ELSE execSucceeded
  /\ UNCHANGED << ui, store, clock, started, handler, attempts, execStarted >>

\* The error leaving executeProposedFix for its caller.
ExecRethrow(c, e) ==
  [c EXCEPT !.todo = << >>, !.pc = "done",
            !.outcome = TRPCError("INTERNAL_SERVER_ERROR", e.message)]
\* The error caught inside the loop, which goes on with the next step.
ExecCatchContinues(c, e) ==
  [c EXCEPT !.todo = Tail(@),
            !.pc = IF Tail(c.todo) = << >> THEN ReturnPc(c) ELSE "exec",
            !.result = ExecFailure(ErrorToString(e))]
\* The catch block of executeProposedFix: what is left of the try block is
\* skipped and {success: false, error} is returned.
ExecCatch(c, e) ==
  [c EXCEPT !.todo = << >>, !.pc = ReturnPc(c),
            !.result = ExecFailure(ErrorToString(e))]

\* One step of executeProposedFix raises: a sandbox call that fails, or a
\* throw of the executor's own code.
ExecStepFail(t) ==
  /\ call[t].pc = "exec"
  /\ LET step == Head(call[t].todo)
         e == IF step.op = "throw" THEN step.arg ELSE SandboxFault
         c == IF step.op = "throw" THEN call[t]
              ELSE [call[t] EXCEPT !.log = Append(@, Logged(step, FALSE))]
     IN call' = [call EXCEPT ![t] = ExecCatch(c, e)]
  /\ UNCHANGED << ui, store, clock, started, handler, attempts, execStarted,
                  execSucceeded >>

\* ----------------------------------------------------------- list queries
\* The where clause without the project's owner.
QueryWhereAnyOwner(pendingOnly, projectId, user, i) ==
  LET msg == message[errorLog[proposedFix[i].errorLogId].messageId]
  IN /\ pendingOnly => proposedFix[i].status = "PENDING"
     /\ msg.projectId = projectId
\* The where clause of the two findMany calls, on the fix with id i:
\* status (getPendingApprovals only), errorLog.message.projectId and
\* errorLog.message.project.userId.
QueryWhere(pendingOnly, projectId, user, i) ==
  LET msg == message[errorLog[proposedFix[i].errorLogId].messageId]
  IN /\ pendingOnly => proposedFix[i].status = "PENDING"
     /\ msg.projectId = projectId
     /\ ProjectOwner[msg.projectId] = user

\* orderBy createdAt desc: rows are created in id order.
RECURSIVE NewestFirst(_)
NewestFirst(ids) ==
  IF ids = {} THEN << >>
  ELSE LET newest == CHOOSE i \in ids : \A j \in ids : j <= i
       IN << newest >> \o NewestFirst(ids \ {newest})

FindManyFixes(pendingOnly, projectId, user) ==
  NewestFirst({ i \in DOMAIN proposedFix : QueryWhere(pendingOnly, projectId, user, i) })

\* Project ids a caller may ask for: the projects, and an id no project has.
QueryProjects == Projects \cup {"p3"}

\* A query is one awaited findMany and its return.
Query(t, op, pendingOnly) ==
  /\ FirstFree(t)
  /\ started < MaxCalls
  /\ started' = started + 1
  /\ \E projectId \in QueryProjects, user \in Users :
       call' = [call EXCEPT ![t] =
         [IdleCall EXCEPT !.pc = "done", !.n = started + 1, !.peers = Peers(t),
                          !.op = op, !.user = user, !.projectId = projectId,
                          !.rows = FindManyFixes(pendingOnly, projectId, user),
                          !.outcome = Ok]]
  /\ UNCHANGED << ui, store, clock, handler, attempts, execStarted, execSucceeded >>

GetPendingApprovals(t) == Query(t, "getPendingApprovals", TRUE)
GetAllApprovals(t) == Query(t, "getAllApprovals", FALSE)

\* The update recording a successful apply as AUTO_FIXED.
ApprovedAsAutoFixed(result) == IF result.success THEN "AUTO_FIXED" ELSE "PENDING"
\* The update writing APPROVED whatever the execution result.
ApprovedAlways(result) == "APPROVED"
\* The status approveFix writes for an execution result.
ApprovedStatus(result) == IF result.success THEN "APPROVED" ELSE "PENDING"
\* The update storing the input's feedback as it came.
ApproveFeedbackAsSupplied(feedback, result) == feedback
\* The feedback approveFix stores.
ApproveFeedback(feedback, result) ==
  IF Truthy(feedback) THEN feedback
  ELSE IF result.success THEN "Fix applied successfully"
  ELSE "Fix failed to apply"

\* prisma.proposedFix.update({where: {id}, data}): writes the row with this
\* id whatever its current status is.
UpdateRow(id, status, user, feedback) ==
  proposedFix' = [proposedFix EXCEPT ![id] =
    [@ EXCEPT !.status = status, !.reviewedBy = user, !.reviewedAt = clock,
              !.feedback = feedback]]

UpdateFix(t) ==
  /\ call[t].pc = "update"
  /\ LET c == call[t]
     IN IF c.op = "approve"
        THEN UpdateRow(c.fixId, ApprovedStatus(c.result), c.user,
                       ApproveFeedback(c.feedback, c.result))
        ELSE UpdateRow(c.fixId, "REJECTED", c.user, c.feedback)
  /\ clock' = clock + 1
  /\ call' = [call EXCEPT ![t].pc = "message", ![t].effects = @ \cup {"update"}]
  /\ UNCHANGED << ui, message, errorLog, started, handler, attempts, execStarted,
                  execSucceeded >>

\* The entry of a rejection without its reason.
OutcomeContentNoReason(c) ==
  IF c.op = "reject"
  THEN [kind |-> "fix_rejected", description |-> c.snap.description, detail |-> ""]
  ELSE IF c.result.success
  THEN [kind |-> "fix_applied", description |-> c.snap.description, detail |-> ""]
  ELSE [kind |-> "fix_failed", description |-> c.snap.description, detail |-> c.result.error]
\* The conversation entry each resolver appends, and its return.
OutcomeContent(c) ==
  IF c.op = "reject"
  THEN [kind |-> "fix_rejected", description |-> c.snap.description, detail |-> c.feedback]
  ELSE IF c.result.success
  THEN [kind |-> "fix_applied", description |-> c.snap.description, detail |-> ""]
  ELSE [kind |-> "fix_failed", description |-> c.snap.description, detail |-> c.result.error]

NewMessage(projectId, type, content) ==
  [projectId |-> projectId, role |-> "ASSISTANT", type |-> type,
   content |-> content, fragment |-> NoFragment]

\* The outcome written over the fix's APPROVAL_REQUEST entry.
CreateOutcomeMessageInPlace(t) ==
  /\ call[t].pc = "message"
  /\ message' = [ m \in DOMAIN message |->
        IF /\ message[m].type = "APPROVAL_REQUEST"
           /\ message[m].content.errorLogId = proposedFix[call[t].fixId].errorLogId
        THEN [message[m] EXCEPT !.content = OutcomeContent(call[t])]
        ELSE message[m] ]
  /\ call' = [call EXCEPT ![t].pc = "done", ![t].outcome = Ok,
                          ![t].effects = @ \cup {"message"}]
  /\ UNCHANGED << ui, errorLog, proposedFix, clock, started, handler, attempts,
                  execStarted, execSucceeded >>

CreateOutcomeMessage(t) ==
  /\ call[t].pc = "message"
  /\ message' = Append(message,
        NewMessage(call[t].snap.projectId, "RESULT", OutcomeContent(call[t])))
  /\ call' = [call EXCEPT ![t].pc = "done", ![t].outcome = Ok,
                          ![t].effects = @ \cup {"message"}]
  /\ UNCHANGED << ui, errorLog, proposedFix, clock, started, handler, attempts,
                  execStarted, execSucceeded >>

\* prisma.message.create of the outcome entry throws: the resolver has no
\* try around it, so the call fails with the update already written.
OutcomeMessageFault(t) ==
  /\ call[t].pc = "message"
  /\ call' = [call EXCEPT ![t].pc = "done",
                          ![t].outcome = TRPCError("INTERNAL_SERVER_ERROR",
                                                   "message.create failed")]
  /\ UNCHANGED << ui, store, clock, started, handler, attempts, execStarted,
                  execSucceeded >>

\* ---------------------------------------------------- error-handling path
\* What analyzeError can get from the reasoning backend: a diagnosis that
\* parses, output that parses without a valid category, or a fault (the run
\* throws, or JSON.parse does).
Diagnosis(cat, sev, auto, conf) ==
  [category |-> cat, severity |-> sev, diagnostic |-> "diagnosed",
   canAutoFix |-> auto, confidence |-> conf]
BackendDiagnoses ==
  { Diagnosis("SYNTAX", "LOW", TRUE, 9), Diagnosis("SYNTAX", "LOW", TRUE, 8),
    Diagnosis("SYNTAX", "LOW", TRUE, 7), Diagnosis("LOGIC", "MEDIUM", TRUE, 9),
    Diagnosis("LOGIC", "HIGH", TRUE, 9), Diagnosis("LOGIC", "HIGH", FALSE, 9),
    Diagnosis("DEPENDENCY", "CRITICAL", TRUE, 8),
    Diagnosis("BOGUS", "LOW", TRUE, 9) }
FallbackDiagnosis ==
  [category |-> "INFRASTRUCTURE", severity |-> "HIGH",
   diagnostic |-> "Failed to analyze error", canAutoFix |-> FALSE,
   confidence |-> 0]

\* How the backend call of analyzeError ends: output that JSON.parse accepts,
\* a run that throws, or output that JSON.parse throws on.
BackendOutcomes ==
  { [kind |-> "output", value |-> d] : d \in BackendDiagnoses }
    \cup { [kind |-> "throws"], [kind |-> "unparsable"] }
\* The fallback with a diagnosis that lets fix generation go ahead.
AnalyzeResultOptimistic(outcome) ==
  IF outcome.kind = "output" THEN outcome.value
  ELSE [FallbackDiagnosis EXCEPT !.canAutoFix = TRUE, !.confidence = 9]
\* analyzeError: the parsed output, or the fallback from its catch block.
AnalyzeResult(outcome) ==
  IF outcome.kind = "output" THEN outcome.value ELSE FallbackDiagnosis

ErrorCategories ==
  {"COMPILATION", "DEPENDENCY", "SYNTAX", "LOGIC", "INFRASTRUCTURE", "USER_INPUT"}
ErrorSeverities == {"LOW", "MEDIUM", "HIGH", "CRITICAL"}

\* What generateFix can get from the backend: a draft, or null on a fault.
NullDraft == [found |-> FALSE]
Draft(conf) ==
  [found |-> TRUE, description |-> "draft fix", fixData |-> CommandFix(<<"c1">>),
   reasoning |-> "because", confidence |-> conf]
BackendDrafts == { Draft(5), Draft(8), Draft(9) }

\* The gate with a diagnosis confidence of exactly 0.7 let through.
ShouldGenerateFixAtLeast(analysis) ==
  analysis.canAutoFix /\ analysis.confidence >= DiagnosisThreshold
\* The gate before fix generation.
ShouldGenerateFix(analysis) ==
  analysis.canAutoFix /\ analysis.confidence > DiagnosisThreshold
\* The test after the create with a confidence of exactly 0.8 let through.
IsAutoFixAtLeast(severity, confidence) ==
  severity = "LOW" /\ confidence >= AutoFixThreshold
\* The test handleError makes after the create, to choose between the
\* auto-apply branch and the approval request.
IsAutoFix(severity, confidence) ==
  severity = "LOW" /\ confidence > AutoFixThreshold
\* The policy with a draft confidence of exactly 0.8 let through.
InitialStatusAtLeast(severity, confidence) ==
  IF severity = "LOW" /\ confidence >= AutoFixThreshold THEN "AUTO_FIXED"
  ELSE "PENDING"
\* The approval policy: the status handleError gives the row it creates.
InitialStatus(severity, confidence) ==
  IF severity = "LOW" /\ confidence > AutoFixThreshold THEN "AUTO_FIXED"
  ELSE "PENDING"

\* Every fix hung on the first error log of the table.
NewFixOnFirstLog(errorLogId, draft, status) ==
  [errorLogId |-> 1, description |-> draft.description,
   fixData |-> draft.fixData, reasoning |-> draft.reasoning,
   confidence |-> draft.confidence, status |-> status,
   reviewedBy |-> Undefined, reviewedAt |-> 0, feedback |-> Undefined,
   createdBy |-> "handleError"]
\* createdBy is not a column: it records which code created the row.
NewFix(errorLogId, draft, status) ==
  [errorLogId |-> errorLogId, description |-> draft.description,
   fixData |-> draft.fixData, reasoning |-> draft.reasoning,
   confidence |-> draft.confidence, status |-> status,
   reviewedBy |-> Undefined, reviewedAt |-> 0, feedback |-> Undefined,
   createdBy |-> "handleError"]

\* The executionStep handleError's caller puts in the context: the catch
\* block of the orchestrator passes "agent-execution", the no-output branch
\* passes none.
ContextMarkerAlways(site) == "agent-execution"
ContextMarker(site) == IF site = "catch" THEN "agent-execution" ELSE "none"

\* site, agent and base are not variables of the code: they record where
\* handleError was called from, how the agent run ended, and how many
\* entries the conversation had when the task started.
IdleHandler ==
  [pc |-> "idle", projectId |-> "p1", messageId |-> 0,
   site |-> "direct", agent |-> "none", base |-> 0, assistantId |-> 0,
   backend |-> "none", analysis |-> FallbackDiagnosis, errorLogId |-> 0, draft |-> NullDraft,
   fixId |-> 0, returned |-> 0]

\* handleError starts: the ERROR entry is created first.
HandleErrorBegin ==
  /\ handler.pc \in {"idle", "done"}
  /\ attempts < MaxAttempts
  /\ attempts' = attempts + 1
  /\ \E p \in Projects :
       /\ message' = Append(message,
             NewMessage(p, "ERROR", [kind |-> "error_occurred"]))
       /\ handler' = [IdleHandler EXCEPT !.pc = "analyze", !.projectId = p,
                                         !.base = Len(message),
                                         !.messageId = Len(message) + 1]
  /\ UNCHANGED << ui, errorLog, proposedFix, clock, call, started, execStarted,
                  execSucceeded >>

\* Fix generation started on the diagnosis, before the error log is created.
AnalyzeErrorSkipsLog ==
  /\ handler.pc = "analyze"
  /\ \E outcome \in BackendOutcomes :
       handler' = [handler EXCEPT !.pc = "generate", !.backend = outcome.kind,
                                  !.analysis = AnalyzeResult(outcome)]
  /\ UNCHANGED << ui, store, clock, call, started, attempts, execStarted,
                  execSucceeded >>

\* The awaited analyzeError call.  backend is not a variable of the code: it
\* records how the backend call ended.
AnalyzeErrorFrom(outcomes) ==
  /\ handler.pc = "analyze"
  /\ \E outcome \in outcomes :
       handler' = [handler EXCEPT !.pc = "log", !.backend = outcome.kind,
                                  !.analysis = AnalyzeResult(outcome)]
  /\ UNCHANGED << ui, store, clock, call, started, attempts, execStarted,
                  execSucceeded >>

AnalyzeError == AnalyzeErrorFrom(BackendOutcomes)

\* prisma.errorLog.create: the row's enum columns reject a value outside
\* the enum, and the create then throws into handleError's catch block.
CreateErrorLog ==
  /\ handler.pc = "log"
  /\ LET a == handler.analysis
     IN IF a.category \in ErrorCategories /\ a.severity \in ErrorSeverities
        THEN /\ errorLog' = Append(errorLog,
                   [messageId |-> handler.messageId, category |-> a.category,
                    severity |-> a.severity, diagnostic |-> a.diagnostic,
                    analysis |-> a, site |-> handler.site,
                    executionStep |-> ContextMarker(handler.site)])
             /\ handler' = [handler EXCEPT
                   !.errorLogId = Len(errorLog) + 1,
                   !.pc = IF ShouldGenerateFix(a) THEN "generate" ELSE "done",
                   !.returned = IF ShouldGenerateFix(a) THEN 0 ELSE handler.messageId]
        ELSE /\ errorLog' = errorLog
             /\ handler' = [handler EXCEPT !.pc = "fallback"]
  /\ UNCHANGED << ui, message, proposedFix, clock, call, started, attempts,
                  execStarted, execSucceeded >>

\* A null draft treated as an error of the run.
GenerateFixPropagates ==
  /\ handler.pc = "generate"
  /\ \E d \in BackendDrafts \cup {NullDraft} :
       handler' = [handler EXCEPT
         !.draft = d,
         !.pc = IF d.found THEN "propose" ELSE "fallback"]
  /\ UNCHANGED << ui, store, clock, call, started, attempts, execStarted,
                  execSucceeded >>

\* generateFix returns the backend's draft, or null.
GenerateFixFrom(drafts) ==
  /\ handler.pc = "generate"
  /\ \E d \in drafts \cup {NullDraft} :
       handler' = [handler EXCEPT
         !.draft = d,
         !.pc = IF d.found THEN "propose" ELSE "done",
         !.returned = IF d.found THEN 0 ELSE handler.messageId]
  /\ UNCHANGED << ui, store, clock, call, started, attempts, execStarted,
                  execSucceeded >>

GenerateFix == GenerateFixFrom(BackendDrafts)

\* prisma.proposedFix.create with the status the policy decides.
CreateProposedFix ==
  /\ handler.pc = "propose"
  /\ LET auto == IsAutoFix(handler.analysis.severity, handler.draft.confidence)
     IN /\ proposedFix' = Append(proposedFix,
              NewFix(handler.errorLogId, handler.draft,
                     InitialStatus(handler.analysis.severity,
                                   handler.draft.confidence)))
        /\ handler' = [handler EXCEPT
              !.fixId = Len(proposedFix) + 1,
              !.pc = IF auto THEN "done" ELSE "request",
              !.returned = IF auto THEN handler.messageId ELSE 0]
  /\ execStarted' = Append(execStarted, 0)
  /\ execSucceeded' = Append(execSucceeded, 0)
  /\ UNCHANGED << ui, message, errorLog, clock, call, started, attempts >>

\* The APPROVAL_REQUEST entry for a fix that waits for review.
CreateApprovalRequest ==
  /\ handler.pc = "request"
  /\ message' = Append(message,
        NewMessage(handler.projectId, "APPROVAL_REQUEST",
          [kind |-> "approval_request", errorLogId |-> handler.errorLogId,
           description |-> handler.draft.description,
           reasoning |-> handler.draft.reasoning,
           confidence |-> handler.draft.confidence]))
  /\ handler' = [handler EXCEPT !.pc = "done", !.returned = handler.messageId]
  /\ UNCHANGED << ui, errorLog, proposedFix, clock, call, started, attempts,
                  execStarted, execSucceeded >>

\* The catch block of handleError: the generic ERROR entry.
CreateFallbackMessage ==
  /\ handler.pc = "fallback"
  /\ message' = Append(message,
        NewMessage(handler.projectId, "ERROR", [kind |-> "something_went_wrong"]))
  /\ handler' = [handler EXCEPT !.pc = "done", !.returned = Len(message) + 1]
  /\ UNCHANGED << ui, errorLog, proposedFix, clock, call, started, attempts,
                  execStarted, execSucceeded >>

\* ------------------------------------------------------------ orchestrator
\* enhancedCodeAgentFunction: one generation attempt.  It is the task that
\* runs handleError, so it shares the handler record.
\* What the agent run leaves in its state: a summary or none, files or none.
AgentResults ==
  { [summary |-> sm, files |-> f] : sm \in {"", "done"}, f \in {0, 1} }
\* !summary || Object.keys(files).length === 0
IsError(result) == Len(result.summary) = 0 \/ result.files = 0
AgentOutcome(result) ==
  IF Len(result.summary) = 0 THEN "no-summary"
  ELSE IF result.files = 0 THEN "no-files" ELSE "ok"

\* handleError is called: its locals are fresh.
EnterHandleError(h, site) ==
  [h EXCEPT !.pc = "error", !.site = site, !.messageId = 0,
            !.backend = "none", !.analysis = FallbackDiagnosis,
            !.errorLogId = 0, !.draft = NullDraft, !.fixId = 0, !.returned = 0]

AttemptBegin ==
  /\ handler.pc \in {"idle", "done", "raised"}
  /\ attempts < MaxAttempts
  /\ attempts' = attempts + 1
  /\ \E p \in Projects :
       handler' = [IdleHandler EXCEPT !.pc = "setup", !.projectId = p,
                                      !.base = Len(message)]
  /\ UNCHANGED << ui, store, clock, call, started, execStarted, execSucceeded >>

\* The steps before the try block: Sandbox.create and the findMany of the
\* previous messages.
AttemptSetup ==
  /\ handler.pc = "setup"
  /\ handler' = [handler EXCEPT !.pc = "agent"]
  /\ UNCHANGED << ui, store, clock, call, started, attempts, execStarted,
                  execSucceeded >>

\* One of them throws: nothing catches it.
SetupFault ==
  /\ handler.pc = "setup"
  /\ handler' = [handler EXCEPT !.pc = "raised"]
  /\ UNCHANGED << ui, store, clock, call, started, attempts, execStarted,
                  execSucceeded >>

\* The agent run returns, with or without output.
AgentRun ==
  /\ handler.pc = "agent"
  /\ \E result \in AgentResults :
       handler' =
         IF IsError(result)
         THEN [EnterHandleError(handler, "no-output")
                 EXCEPT !.agent = AgentOutcome(result)]
         ELSE [handler EXCEPT !.pc = "result", !.agent = "ok"]
  /\ UNCHANGED << ui, store, clock, call, started, attempts, execStarted,
                  execSucceeded >>

\* The agent run throws, into the catch block.
AgentThrows ==
  /\ handler.pc = "agent"
  /\ handler' = [EnterHandleError(handler, "catch") EXCEPT !.agent = "throws"]
  /\ UNCHANGED << ui, store, clock, call, started, attempts, execStarted,
                  execSucceeded >>

\* The success path: the RESULT entry, ...
CreateResultMessage ==
  /\ handler.pc = "result"
  /\ message' = Append(message,
        NewMessage(handler.projectId, "RESULT", [kind |-> "summary"]))
  /\ handler' = [handler EXCEPT !.pc = "prepare", !.assistantId = Len(message) + 1]
  /\ UNCHANGED << ui, errorLog, proposedFix, clock, call, started, attempts,
                  execStarted, execSucceeded >>

\* ... the title and description agents, getSandbox and getHostname, ...
PrepareFragment ==
  /\ handler.pc = "prepare"
  /\ handler' = [handler EXCEPT !.pc = "fragment"]
  /\ UNCHANGED << ui, store, clock, call, started, attempts, execStarted,
                  execSucceeded >>

\* ... the fragment of the RESULT entry, ...
CreateFragment ==
  /\ handler.pc = "fragment"
  /\ message' = [message EXCEPT ![handler.assistantId].fragment =
                    Fragment(<<"s", ".", "h">>)]
  /\ handler' = [handler EXCEPT !.pc = "describe"]
  /\ UNCHANGED << ui, errorLog, proposedFix, clock, call, started, attempts,
                  execStarted, execSucceeded >>

\* ... and the entry's content replaced by the description.
UpdateResultMessage ==
  /\ handler.pc = "describe"
  /\ message' = [message EXCEPT ![handler.assistantId].content =
                    [kind |-> "description"]]
  /\ handler' = [handler EXCEPT !.pc = "done", !.returned = handler.assistantId]
  /\ UNCHANGED << ui, errorLog, proposedFix, clock, call, started, attempts,
                  execStarted, execSucceeded >>

\* An awaited call of the success path throws, into the catch block.
SuccessPathFault ==
  /\ handler.pc \in {"result", "prepare", "fragment", "describe"}
  /\ handler' = EnterHandleError(handler, "catch")
  /\ UNCHANGED << ui, store, clock, call, started, attempts, execStarted,
                  execSucceeded >>

\* handleError called by the orchestrator: the ERROR entry is created first.
CreateErrorMessage ==
  /\ handler.pc = "error"
  /\ message' = Append(message,
        NewMessage(handler.projectId, "ERROR", [kind |-> "error_occurred"]))
  /\ handler' = [handler EXCEPT !.pc = "analyze", !.messageId = Len(message) + 1]
  /\ UNCHANGED << ui, errorLog, proposedFix, clock, call, started, attempts,
                  execStarted, execSucceeded >>

\* A store write inside handleError's try block throws, into its catch block.
HandleErrorStoreFault ==
  /\ handler.pc \in {"error", "log", "propose", "request"}
  /\ handler' = [handler EXCEPT !.pc = "fallback"]
  /\ UNCHANGED << ui, store, clock, call, started, attempts, execStarted,
                  execSucceeded >>

\* The message.create of handleError's catch block throws: handleError
\* raises.  Called from the try block of the orchestrator, that lands in the
\* orchestrator's catch block, which calls handleError again; called from
\* the catch block, nothing catches it.
FallbackFault ==
  /\ handler.pc = "fallback"
  /\ handler' = IF handler.site = "no-output"
                 THEN EnterHandleError(handler, "catch")
                 ELSE [handler EXCEPT !.pc = "raised"]
  /\ UNCHANGED << ui, store, clock, call, started, attempts, execStarted,
                  execSucceeded >>

\* ----------------------------------------------------------- specifications
\* Rows the store holds before the modelled tasks start: one fix awaiting
\* review in project p1.  The schema lets the message an error log hangs on
\* own a fragment (1:1 on messageId on both sides), and approveFix branches
\* on that fragment's sandboxUrl, so the row is taken with and without one.
SeedFragments == {NoFragment} \cup { Fragment(u) : u \in SandboxUrls }
\* The diagnosis severity and draft confidence the seeded fix was made from;
\* its status is the one the policy gives them.
SeedCases == { <<"HIGH", 5>>, <<"LOW", 9>> }
SeedFix(payload, severity, confidence) ==
  [errorLogId |-> 1, description |-> "seed fix", fixData |-> payload,
   reasoning |-> "because", confidence |-> confidence,
   status |-> InitialStatus(severity, confidence),
   reviewedBy |-> Undefined, reviewedAt |-> 0, feedback |-> Undefined,
   createdBy |-> "seed"]

\* ---------------------------------------------------------- AvatarProvider
\* useState(false) twice; no effect has run.  effectMode is the isAvatarMode
\* the closure of the last effect run holds, and inFlight[m] the number of
\* checkAvatarAvailability calls awaiting their fetch that hold isAvatarMode
\* = m.
ProviderInit ==
  [mounted |-> FALSE, isAvatarMode |-> FALSE, isAvatarAvailable |-> FALSE,
   effectMode |-> FALSE, inFlight |-> [m \in BOOLEAN |-> 0]]
InFlightCount(p) == p.inFlight[TRUE] + p.inFlight[FALSE]
\* checkAvatarAvailability() is called by a closure that saw isAvatarMode.
StartCheck(p, saw) == [p EXCEPT !.inFlight[saw] = @ + 1]
\* The state setters take effect and the component renders; the effect has
\* isAvatarMode as its dependency: when it changed, the effect runs again
\* and calls checkAvatarAvailability() with the new value.
Commit(p, mode, available) ==
  LET q == [p EXCEPT !.isAvatarMode = mode, !.isAvatarAvailable = available]
  IN IF mode # p.isAvatarMode
     THEN StartCheck([q EXCEPT !.effectMode = mode], mode)
     ELSE q

ProviderMount ==
  /\ ~provider.mounted
  /\ provider' = StartCheck([provider EXCEPT !.mounted = TRUE,
                                             !.effectMode = provider.isAvatarMode],
                            provider.isAvatarMode)
  /\ UNCHANGED << server, avatar >>

\* setInterval(checkAvatarAvailability, 30000) of the last effect run.
IntervalTick ==
  /\ provider.mounted
  /\ InFlightCount(provider) < MaxInFlight
  /\ provider' = StartCheck(provider, provider.effectMode)
  /\ UNCHANGED << server, avatar >>

\* The fetch of a check resolves.
CheckSucceeds ==
  /\ \E saw \in BOOLEAN :
       /\ provider.inFlight[saw] > 0
       /\ provider' = Commit([provider EXCEPT !.inFlight[saw] = @ - 1],
                             provider.isAvatarMode, TRUE)
  /\ UNCHANGED << server, avatar >>

\* The fetch of a check rejects (network error, or the abort after 3 s).
CheckFails ==
  /\ \E saw \in BOOLEAN :
       /\ provider.inFlight[saw] > 0
       /\ provider' = Commit([provider EXCEPT !.inFlight[saw] = @ - 1],
                             IF saw THEN FALSE ELSE provider.isAvatarMode, FALSE)
  /\ UNCHANGED << server, avatar >>

\* toggleMode does nothing when the avatar is not available.
ToggleMode ==
  /\ provider.mounted
  /\ provider.isAvatarAvailable
  /\ InFlightCount(provider) < MaxInFlight
  /\ provider' = Commit(provider, ~provider.isAvatarMode, TRUE)
  /\ UNCHANGED << server, avatar >>

SetAvatarAvailable ==
  /\ provider.mounted
  /\ InFlightCount(provider) < MaxInFlight
  /\ \E available \in BOOLEAN :
       provider' = Commit(provider,
                          IF ~available /\ provider.isAvatarMode THEN FALSE
                          ELSE provider.isAvatarMode,
                          available)
  /\ UNCHANGED << server, avatar >>

AvatarProvider ==
  \/ ProviderMount
  \/ IntervalTick
  \/ CheckSucceeds
  \/ CheckFails
  \/ ToggleMode
  \/ SetAvatarAvailable

\* ------------------------------------------------------------- AvatarAgent
AvatarOrigin == "http://127.0.0.1:5501"
\* What a window message event can carry: its origin and its data.
WindowEvent(origin, data) == [origin |-> origin, data |-> data]
Unparsable == [type |-> "<unparsable>"]
AvatarEvents ==
  { WindowEvent(AvatarOrigin, [type |-> "ready"]),
    WindowEvent(AvatarOrigin, [type |-> "message", content |-> "hi"]),
    WindowEvent(AvatarOrigin, [type |-> "error", error |-> "boom"]),
    WindowEvent(AvatarOrigin, [type |-> "other"]),
    WindowEvent(AvatarOrigin, Unparsable),
    WindowEvent("http://elsewhere", [type |-> "ready"]) }
ConfigMessage == [type |-> "config", config |-> "projectId"]

\* The component after its first render and effect run.  listener is the
\* isConnected that sendToAvatar holds in the closure of the registered
\* handleMessage; timerSaw the isConnected that the pending timeout callback
\* holds; sent, forwarded and errors record postMessage, onMessage and
\* onError calls.
AgentInit ==
  [isLoading |-> TRUE, isConnected |-> FALSE, listener |-> FALSE,
   timer |-> "none", timerSaw |-> FALSE,
   sent |-> << >>, forwarded |-> << >>, errors |-> << >>, events |-> 0]

\* sendToAvatar(message) called from a closure holding isConnected.
SendToAvatar(a, isConnected, msg) ==
  IF isConnected THEN [a EXCEPT !.sent = Append(@, msg)] ELSE a

\* handleMessage(event)
HandleMessage(a, event) ==
  IF event.origin # AvatarOrigin THEN a
  ELSE IF event.data = Unparsable
  THEN [a EXCEPT !.errors = Append(@, "Communication error with avatar")]
  ELSE CASE event.data.type = "ready" ->
              SendToAvatar([a EXCEPT !.isLoading = FALSE, !.isConnected = TRUE],
                           a.listener, ConfigMessage)
         [] event.data.type = "message" ->
              [a EXCEPT !.forwarded = Append(@, event.data.content)]
         [] event.data.type = "error" ->
              [a EXCEPT !.errors = Append(@, event.data.error)]
         [] OTHER -> a

ReceiveMessage ==
  /\ avatar.events < MaxEvents
  /\ \E event \in AvatarEvents :
       avatar' = [HandleMessage(avatar, event) EXCEPT !.events = @ + 1]
  /\ UNCHANGED << server, provider >>

\* The parent renders again and hands new onMessage / onError functions:
\* the effect runs again and registers the handleMessage of this render.
ParentRerender ==
  /\ avatar.events < MaxEvents
  /\ avatar' = [avatar EXCEPT !.listener = avatar.isConnected, !.events = @ + 1]
  /\ UNCHANGED << server, provider >>

\* handleIframeLoad of the last render: the timeout callback is created.
IframeLoad ==
  /\ avatar.timer = "none"
  /\ avatar' = [avatar EXCEPT !.timer = "armed", !.timerSaw = avatar.isConnected]
  /\ UNCHANGED << server, provider >>

\* The callback runs, 5 s after the load.
ConnectTimeout ==
  /\ avatar.timer = "armed"
  /\ avatar' = IF ~avatar.timerSaw
               THEN [avatar EXCEPT !.timer = "fired", !.isLoading = FALSE,
                                   !.errors = Append(@, "Avatar failed to connect")]
               ELSE [avatar EXCEPT !.timer = "fired"]
  /\ UNCHANGED << server, provider >>

AvatarAgent ==
  \/ ReceiveMessage
  \/ ParentRerender
  \/ IframeLoad
  \/ ConnectTimeout

\* ------------------------------------------------------------ initial states
NoTasks ==
  /\ provider = ProviderInit
  /\ avatar = AgentInit
  /\ clock = 1
  /\ call = [t \in Tasks |-> IdleCall]
  /\ started = 0
  /\ handler = IdleHandler
  /\ attempts = 0

\* The store with one fix in it.
InitWith(fragments, payloads, cases) ==
  /\ \E f \in fragments :
       message = << [NewMessage("p1", "ERROR", [kind |-> "error_occurred"])
                       EXCEPT !.fragment = f] >>
  /\ \E payload \in payloads, c \in cases :
       /\ errorLog = << [messageId |-> 1, category |-> "LOGIC",
                         severity |-> c[1], diagnostic |-> "diagnosed",
                         analysis |-> Diagnosis("LOGIC", c[1], TRUE, 9)] >>
       /\ proposedFix = << SeedFix(payload, c[1], c[2]) >>
  /\ execStarted = << 0 >>
  /\ execSucceeded = << 0 >>
  /\ NoTasks

Init == InitWith(SeedFragments, Payloads, SeedCases)
\* The fix executeProposedFix is handed when it is called on its own.
InitExec == InitWith({NoFragment}, ExecPayloads, {<<"HIGH", 5>>})

\* The store the queries are run on: two fixes, each in either project and
\* in any status; a reviewed fix carries its reviewer, the project's owner.
QueryStatuses == {"PENDING", "APPROVED", "REJECTED", "AUTO_FIXED"}
QueryFix(e, projectId, status) ==
  [errorLogId |-> e, description |-> "seed fix", fixData |-> CommandFix(<<"c1">>),
   reasoning |-> "because", confidence |-> 5, status |-> status,
   reviewedBy |-> IF status \in {"APPROVED", "REJECTED"}
                  THEN ProjectOwner[projectId] ELSE Undefined,
   reviewedAt |-> IF status \in {"APPROVED", "REJECTED"} THEN 1 ELSE 0,
   feedback |-> IF status \in {"APPROVED", "REJECTED"} THEN "why" ELSE Undefined,
   createdBy |-> "seed"]
InitQuery ==
  /\ \E p1 \in Projects, p2 \in Projects, s1 \in QueryStatuses, s2 \in QueryStatuses :
       /\ message = << NewMessage(p1, "ERROR", [kind |-> "error_occurred"]),
                       NewMessage(p2, "ERROR", [kind |-> "error_occurred"]) >>
       /\ errorLog = [ e \in 1..2 |->
                         [messageId |-> e, category |-> "LOGIC",
                          severity |-> "HIGH", diagnostic |-> "diagnosed",
                          analysis |-> Diagnosis("LOGIC", "HIGH", TRUE, 9)] ]
       /\ proposedFix = << QueryFix(1, p1, s1), QueryFix(2, p2, s2) >>
  /\ execStarted = << 0, 0 >>
  /\ execSucceeded = << 0, 0 >>
  /\ NoTasks /\ clock = 1

\* The empty store.
InitEmpty ==
  /\ message = << >>
  /\ errorLog = << >>
  /\ proposedFix = << >>
  /\ execStarted = << >>
  /\ execSucceeded = << >>
  /\ NoTasks

Review ==
  \/ \E t \in Tasks : ApproveFixBegin(t)
  \/ \E t \in Tasks : RejectFixBegin(t)
  \/ \E t \in Tasks : UpdateFix(t)
  \/ \E t \in Tasks : CreateOutcomeMessage(t)

Execute ==
  \/ \E t \in Tasks : ExecStepOk(t)
  \/ \E t \in Tasks : ExecStepFail(t)

HandleError ==
  \/ HandleErrorBegin
  \/ AnalyzeError
  \/ CreateErrorLog
  \/ GenerateFix
  \/ CreateProposedFix
  \/ CreateApprovalRequest
  \/ CreateFallbackMessage

\* Reviewers acting on the fix in the store.
Next == Review \/ Execute
Spec == Init /\ [][Next]_vars

\* The error-handling path filling an empty store, and reviewers acting on
\* what it creates.  handleError hangs every error log on the ERROR entry it
\* has just created, which has no fragment, so no call here ever reaches
\* executeProposedFix (pc = "exec") and Execute has no step to add.
NextPipeline == HandleError \/ Review
SpecPipeline == InitEmpty /\ [][NextPipeline]_vars

\* executeProposedFix on its own, over every payload and sandboxId.
NextExec == (\E t \in Tasks : ExecuteProposedFix(t)) \/ Execute
SpecExec == InitExec /\ [][NextExec]_vars

\* Reviewers acting on the fix in the store, with the write of the outcome
\* entry free to fail.
NextLedger == Review \/ Execute \/ (\E t \in Tasks : OutcomeMessageFault(t))
SpecLedger == Init /\ [][NextLedger]_vars

\* AvatarAgent on its own, and the two client components of the page
\* together.
NextAgent == AvatarAgent
SpecAgent == InitEmpty /\ [][NextAgent]_vars
NextAvatar == AvatarProvider \/ AvatarAgent
SpecAvatar == InitEmpty /\ [][NextAvatar]_vars

\* The list queries on a store of two fixes.
NextQuery ==
  \/ \E t \in Tasks : GetPendingApprovals(t)
  \/ \E t \in Tasks : GetAllApprovals(t)
SpecQuery == InitQuery /\ [][NextQuery]_vars

\* One generation attempt after another, with the store free to fail any
\* write of the task and every awaited call free to throw.
Attempt ==
  \/ AttemptBegin
  \/ AttemptSetup
  \/ SetupFault
  \/ AgentRun
  \/ AgentThrows
  \/ CreateResultMessage
  \/ PrepareFragment
  \/ CreateFragment
  \/ UpdateResultMessage
  \/ SuccessPathFault
  \/ CreateErrorMessage
  \/ HandleErrorStoreFault
  \/ FallbackFault
\* handleError inside an attempt.  The backends' answers are drawn from
\* three diagnoses (one valid and auto-fixable, one with a category outside
\* the enum, one backend fault) and one draft or none.
AttemptOutcomes ==
  { [kind |-> "output", value |-> Diagnosis("LOGIC", "HIGH", TRUE, 9)],
    [kind |-> "output", value |-> Diagnosis("BOGUS", "LOW", TRUE, 9)],
    [kind |-> "throws"] }
AttemptDrafts == { Draft(5) }
AnalyzeErrorInAttempt == AnalyzeErrorFrom(AttemptOutcomes)
GenerateFixInAttempt == GenerateFixFrom(AttemptDrafts)
HandleErrorSteps ==
  \/ AnalyzeErrorInAttempt
  \/ CreateErrorLog
  \/ GenerateFixInAttempt
  \/ CreateProposedFix
  \/ CreateApprovalRequest
  \/ CreateFallbackMessage
NextAttempt == Attempt \/ HandleErrorSteps
SpecAttempt == InitEmpty /\ [][NextAttempt]_vars

\* The error-handling path alone.
SpecHandle == InitEmpty /\ [][HandleError]_vars

\* ------------------------------------------------------------------ claims
Terminal == {"APPROVED", "REJECTED", "AUTO_FIXED"}
Done(c) == c.pc = "done"
\* The call read a row of the store.
ReadRow(c) == c.pc # "idle" /\ c.snap.found
\* The call was made by the owner of the fix's project on a fix it read as PENDING.
PassedChecks(c) ==
  ReadRow(c) /\ c.snap.owner = c.user /\ c.snap.status = "PENDING"
\* The call returned having made its decision: a rejection, or an approval
\* whose execution succeeded.
Decided(c) ==
  Done(c) /\ c.outcome = Ok /\ (c.op = "reject" \/ c.result.success)
\* The two tasks' calls were in flight at the same time.
Overlap(t, u) == call[u].n \in call[t].peers \/ call[t].n \in call[u].peers

\* C1: of two concurrent approveFix/rejectFix calls on the same PENDING
\* fix, exactly one succeeds and the other fails with CONFLICT.
C1_ExactlyOneConcurrentCallSucceeds ==
  \A t, u \in Tasks :
    ( /\ t # u
      /\ Done(call[t]) /\ Done(call[u])
      /\ Overlap(t, u)
      /\ call[t].fixId = call[u].fixId
      /\ PassedChecks(call[t]) /\ PassedChecks(call[u]) )
    => \/ Decided(call[t]) /\ call[u].outcome.code = "CONFLICT"
       \/ Decided(call[u]) /\ call[t].outcome.code = "CONFLICT"

\* C2: once a fix is APPROVED, REJECTED or AUTO_FIXED, no step of any
\* approveFix or rejectFix call changes its status.
C2_TerminalStatusNeverChanges ==
  [][ \A i \in DOMAIN proposedFix :
        proposedFix[i].status \in Terminal
          => proposedFix'[i].status = proposedFix[i].status ]_vars

C4_ApprovalRunsExecutor ==
  \A i \in DOMAIN proposedFix :
    (proposedFix[i].createdBy = "handleError" /\ proposedFix[i].status = "APPROVED")
      => execStarted[i] >= 1

\* C5: when handleError has created a fix as AUTO_FIXED, the fix's payload
\* has been executed by the time that handleError run is over.
C5_AutoFixedWasExecuted ==
  ( /\ handler.pc = "done"
    /\ handler.fixId \in DOMAIN proposedFix
    /\ InitialStatus(handler.analysis.severity, handler.draft.confidence) = "AUTO_FIXED" )
  => execStarted[handler.fixId] >= 1

\* C6 as stated: a call by the owner on a fix whose status is not PENDING
\* fails with error code CONFLICT.
C6_AlreadyProcessedIsConflict ==
  \A t \in Tasks :
    ( /\ ReadRow(call[t])
      /\ call[t].snap.owner = call[t].user
      /\ call[t].snap.status # "PENDING" )
    => Done(call[t]) /\ call[t].outcome.code = "CONFLICT"

\* C6 as amended: a call by the owner on a fix it reads with a status other
\* than PENDING (APPROVED, REJECTED or AUTO_FIXED) fails with error code
\* BAD_REQUEST, message "Fix already processed".
C6_AlreadyProcessedIsBadRequest ==
  \A t \in Tasks :
    ( /\ ReadRow(call[t])
      /\ call[t].snap.owner = call[t].user
      /\ call[t].snap.status # "PENDING" )
    => /\ Done(call[t])
       /\ call[t].outcome.code = "BAD_REQUEST"
       /\ call[t].outcome.message = "Fix already processed"

\* approve() on a fix already REJECTED has been refused as already processed.
C6_ApproveOfRejectedRefused ==
  \E t \in Tasks :
    /\ Done(call[t]) /\ call[t].op = "approve" /\ ReadRow(call[t])
    /\ call[t].snap.owner = call[t].user
    /\ call[t].snap.status = "REJECTED"
    /\ call[t].outcome.message = "Fix already processed"

\* The input passed its schema and the row read fails a precondition.
PreconditionFails(c) ==
  /\ c.pc # "idle"
  /\ InputValid(c.op, c.feedback)
  /\ \/ ~c.snap.found
     \/ c.snap.owner # c.user
     \/ c.snap.status # "PENDING"
FailureCodes == {"NOT_FOUND", "FORBIDDEN", "BAD_REQUEST"}

\* C7: every step of a call that fails a precondition (unknown id, caller
\* not the owner, status not PENDING) ends the call with an error and
\* leaves every table of the store unchanged, without invoking the executor.
C7_FailedCallLeavesStoreUnchanged ==
  [][ \A t \in Tasks :
        (call'[t] # call[t] /\ PreconditionFails(call'[t]))
          => /\ call'[t].pc = "done"
             /\ call'[t].outcome.code \in FailureCodes
             /\ call'[t].effects = {}
             /\ store' = store
             /\ execStarted' = execStarted ]_vars

\* A call on a fix that is no longer PENDING has failed, and the fix still
\* carries the first reviewer's decision only.
C7_RefusedCallOnProcessedFix ==
  \E t \in Tasks :
    /\ Done(call[t]) /\ ReadRow(call[t])
    /\ call[t].snap.owner = call[t].user
    /\ call[t].snap.status \in Terminal
    /\ call[t].outcome.code \in FailureCodes
    /\ Len(message) = 2

\* C8: a call with an unknown fix id fails with NOT_FOUND, and a call by
\* a user who does not own the fix's project fails with FORBIDDEN whatever
\* the fix's status.
C8_NotFoundAndForbidden ==
  \A t \in Tasks :
    (call[t].pc # "idle" /\ InputValid(call[t].op, call[t].feedback))
      => /\ ~call[t].snap.found
              => Done(call[t]) /\ call[t].outcome.code = "NOT_FOUND"
         /\ (call[t].snap.found /\ call[t].snap.owner # call[t].user)
              => Done(call[t]) /\ call[t].outcome.code = "FORBIDDEN"

\* A user who does not own the project got FORBIDDEN on a fix that was
\* already processed.
C8_ForbiddenOnProcessedFix ==
  \E t \in Tasks :
    /\ Done(call[t]) /\ ReadRow(call[t])
    /\ call[t].snap.owner # call[t].user
    /\ call[t].snap.status \in Terminal
    /\ call[t].outcome.code = "FORBIDDEN"

\* C9: a rejectFix call with empty or missing feedback fails validation
\* in its first step and changes no table of the store.
C9_RejectWithoutFeedbackFails ==
  [][ \A t \in Tasks :
        ( /\ call'[t] # call[t]
          /\ call'[t].pc # "idle"
          /\ call'[t].op = "reject"
          /\ call'[t].feedback \in {Undefined, ""} )
        => /\ call'[t].pc = "done"
           /\ call'[t].outcome = ValidationError
           /\ call'[t].effects = {}
           /\ store' = store ]_vars

\* The owner's rejectFix with empty feedback on a PENDING fix has failed and
\* the fix is still PENDING and unreviewed.
C9_EmptyRejectionRefused ==
  \E t \in Tasks :
    /\ Done(call[t]) /\ call[t].op = "reject" /\ call[t].feedback = ""
    /\ call[t].user = "u1" /\ call[t].fixId = 1
    /\ call[t].outcome = ValidationError
    /\ proposedFix[1].status = "PENDING"
    /\ proposedFix[1].reviewedBy = Undefined
    /\ Len(message) = 1

\* C10: the update of an approveFix call that passed its preconditions
\* leaves the fix APPROVED exactly when execution succeeded or was skipped,
\* and PENDING when the executor reported failure.
C10_ApprovedIffExecutionSucceeded ==
  [][ \A t \in Tasks :
        ( /\ call[t].op = "approve"
          /\ call[t].pc = "update"
          /\ call'[t].pc = "message" )
        => LET status == proposedFix'[call[t].fixId].status
               succeeded == "exec" \in call[t].effects => call[t].result.success
           IN /\ status = "APPROVED" <=> succeeded
              /\ ~succeeded => status = "PENDING" ]_vars

\* An approval whose execution failed has written the fix, which is PENDING
\* and carries the reviewer.
C10_FailedApplyLeftPending ==
  \E t \in Tasks :
    /\ call[t].op = "approve" /\ call[t].pc \in {"message", "done"}
    /\ "update" \in call[t].effects
    /\ ~call[t].result.success
    /\ proposedFix[call[t].fixId].status = "PENDING"
    /\ proposedFix[call[t].fixId].reviewedBy = call[t].user

\* The call read a fix that an earlier approveFix left PENDING because its
\* execution failed: PENDING rows carrying a reviewer come from nowhere else.
ReadFailedApply(c) ==
  ReadRow(c) /\ c.snap.status = "PENDING" /\ c.snap.reviewedBy # Undefined

\* C11: a fix left PENDING by a failed apply can be retried: a later
\* approveFix by the owner passes the checks and invokes the executor again,
\* and a later rejectFix by the owner with non-empty feedback passes the
\* checks and its update moves the fix to REJECTED.
C11_FailedApplyIsRetryable ==
  [][ \A t \in Tasks :
        /\ ( /\ call[t].pc \in {"idle", "done"}
             /\ call'[t] # call[t]
             /\ ReadFailedApply(call'[t])
             /\ call'[t].snap.owner = call'[t].user )
           => /\ call'[t].pc \notin {"idle", "done"}
              /\ call'[t].outcome = NoError
              /\ call'[t].op = "approve"
                   => /\ "exec" \in call'[t].effects
                      /\ execStarted'[call'[t].fixId] = execStarted[call'[t].fixId] + 1
        /\ ( /\ call[t].op = "reject"
             /\ ReadFailedApply(call[t])
             /\ call[t].pc = "update"
             /\ call'[t].pc = "message" )
           => proposedFix'[call[t].fixId].status = "REJECTED" ]_vars

\* After a failed apply the owner's second approveFix has run the executor
\* again, this time to success, and the fix is APPROVED.
C11_RetriedAfterFailedApply ==
  \E t \in Tasks :
    /\ Done(call[t]) /\ call[t].op = "approve"
    /\ ReadFailedApply(call[t])
    /\ call[t].outcome = Ok
    /\ call[t].result.success
    /\ execStarted[call[t].fixId] = 2
    /\ proposedFix[call[t].fixId].status = "APPROVED"

\* The severity of the diagnosis a fix was generated from.
SeverityOf(fix) == errorLog[fix.errorLogId].severity

\* C12: a fix created by handleError is AUTO_FIXED exactly when the
\* diagnosis severity is LOW and the draft's own confidence is above 0.8,
\* and PENDING for every other severity and confidence; the diagnosis
\* confidence does not enter.
C12_PolicyGate ==
  \A i \in DOMAIN proposedFix :
    LET fix == proposedFix[i]
        auto == SeverityOf(fix) = "LOW" /\ fix.confidence > AutoFixThreshold
    IN /\ fix.status = "AUTO_FIXED" <=> auto
       /\ ~auto => fix.status = "PENDING"

\* A draft of confidence exactly 0.8 for a LOW-severity diagnosis of
\* confidence 0.9 has become a PENDING fix.
C12_LowAtThresholdIsPending ==
  \E i \in DOMAIN proposedFix :
    /\ SeverityOf(proposedFix[i]) = "LOW"
    /\ proposedFix[i].confidence = AutoFixThreshold
    /\ errorLog[proposedFix[i].errorLogId].analysis.confidence = 9
    /\ proposedFix[i].status = "PENDING"

\* The APPROVAL_REQUEST entries that reference an error log.
ApprovalRequestsFor(e) ==
  { m \in DOMAIN message :
      /\ message[m].type = "APPROVAL_REQUEST"
      /\ message[m].content.errorLogId = e }
\* The fixes proposed for an error log.
FixesFor(e) == { i \in DOMAIN proposedFix : proposedFix[i].errorLogId = e }
\* The handleError run has its diagnosis.
Diagnosed == handler.pc \notin {"idle", "analyze"}

\* C13: a handleError run whose diagnosis has canAutoFix false or a
\* confidence of 0.7 or less never calls the fix generator and creates
\* neither a ProposedFix nor an APPROVAL_REQUEST entry.
C13_NoFixBelowDiagnosisGate ==
  ( /\ Diagnosed
    /\ ~handler.analysis.canAutoFix \/ handler.analysis.confidence <= DiagnosisThreshold )
  => /\ handler.pc \notin {"generate", "propose", "request"}
     /\ handler.draft = NullDraft
     /\ handler.fixId = 0
     /\ handler.errorLogId # 0
          => /\ FixesFor(handler.errorLogId) = {}
             /\ ApprovalRequestsFor(handler.errorLogId) = {}

\* A run diagnosed auto-fixable with confidence exactly 0.7 is over, its
\* error log recorded, with no fix and no approval request.
C13_AtThresholdNoFix ==
  /\ handler.pc = "done"
  /\ handler.analysis.canAutoFix
  /\ handler.analysis.confidence = DiagnosisThreshold
  /\ handler.errorLogId \in DOMAIN errorLog
  /\ FixesFor(handler.errorLogId) = {}
  /\ ApprovalRequestsFor(handler.errorLogId) = {}

\* The handleError run that recorded this error log is over.
RunOver(e) == e # handler.errorLogId \/ handler.pc = "done"

C20_BackendFaultGivesFallback ==
  (Diagnosed /\ handler.backend \in {"throws", "unparsable"})
  => /\ handler.analysis.category = "INFRASTRUCTURE"
     /\ handler.analysis.severity = "HIGH"
     /\ ~handler.analysis.canAutoFix
     /\ handler.analysis.confidence = 0
     /\ handler.pc \in {"log", "done"}
     /\ handler.pc = "done" =>
          /\ handler.errorLogId \in DOMAIN errorLog
          /\ errorLog[handler.errorLogId].messageId = handler.messageId
          /\ errorLog[handler.errorLogId].category = "INFRASTRUCTURE"
          /\ errorLog[handler.errorLogId].severity = "HIGH"
          /\ FixesFor(handler.errorLogId) = {}
          /\ handler.returned = handler.messageId

\* A run whose backend output did not parse is over: its error log is in
\* the store as INFRASTRUCTURE / HIGH and no fix was proposed.
C20_UnparsableOutputLogged ==
  /\ handler.pc = "done"
  /\ handler.backend = "unparsable"
  /\ handler.errorLogId \in DOMAIN errorLog
  /\ errorLog[handler.errorLogId].category = "INFRASTRUCTURE"
  /\ errorLog[handler.errorLogId].severity = "HIGH"
  /\ FixesFor(handler.errorLogId) = {}

\* C14: no step changes the status of an existing fix to AUTO_FIXED, and
\* every fix that a step adds to the table has status PENDING or AUTO_FIXED.
C14_AutoFixedOnlyAtCreation ==
  [][ \A i \in DOMAIN proposedFix' :
        IF i \in DOMAIN proposedFix
        THEN proposedFix'[i].status = "AUTO_FIXED"
               => proposedFix[i].status = "AUTO_FIXED"
        ELSE proposedFix'[i].status \in {"PENDING", "AUTO_FIXED"} ]_vars

\* A fix that handleError created has been approved by a reviewer's call.
C14_CreatedFixReviewed ==
  \E t \in Tasks :
    /\ Done(call[t]) /\ call[t].outcome = Ok /\ call[t].op = "approve"
    /\ proposedFix[call[t].fixId].createdBy = "handleError"
    /\ proposedFix[call[t].fixId].status = "APPROVED"

\* ------------------------------------------------------ executor claims
\* The task has entered executeProposedFix / has come back from it.
Entered(c) == "exec" \in c.effects
Returned(c) == Entered(c) /\ c.pc # "exec"
\* The sandbox calls of one kind the task has made, in the order made.
Made(c, kind) == SelectSeq(c.log, LAMBDA r : r.op = kind)
\* The calls made are the first ones of the list, in the list's order.
InListedOrder(made, list) ==
  /\ Len(made) <= Len(list)
  /\ \A j \in 1..Len(made) : made[j].arg = list[j]
AllOk(made) == \A j \in 1..Len(made) : made[j].ok
\* No sandbox call was made after one that failed.
NothingAfterFailure(c) == \A j \in 1..Len(c.log) : ~c.log[j].ok => j = Len(c.log)
\* The sandbox session was looked up and found.
GotSandbox(c) ==
  c.log # << >> /\ c.log[1].op = "getSandbox" /\ c.log[1].ok
IsTagged(fixData, tag) == fixData # NullPayload /\ fixData.type = tag

\* C16: executing a multiStep payload that has both commands and files,
\* the commands are run in listed order, every file write comes after every
\* command, and a command that fails is the last sandbox call made: the
\* rest of the commands and all file writes are skipped and the result is
\* success = false.
C16_CommandsBeforeFiles ==
  \A t \in Tasks :
    LET c == call[t]
        fixData == c.snap.fixData
        runs == Made(c, "run")
        writes == Made(c, "write")
    IN ( /\ Entered(c)
         /\ IsTagged(fixData, "multiStep")
         /\ HasField(fixData, "commands") /\ HasField(fixData, "files") )
       => /\ InListedOrder(runs, fixData.commands)
          /\ InListedOrder(writes, fixData.files)
          /\ \A j, k \in 1..Len(c.log) :
               (c.log[j].op = "write" /\ c.log[k].op = "run") => k < j
          /\ writes # << >> => Len(runs) = Len(fixData.commands) /\ AllOk(runs)
          /\ ~AllOk(runs) => /\ NothingAfterFailure(c)
                             /\ writes = << >>
                             /\ Returned(c)
                             /\ ~c.result.success

\* A multiStep run whose second command failed has returned failure having
\* made three sandbox calls: the lookup, the first command and the second.
C16_SecondCommandFailed ==
  \E t \in Tasks :
    /\ Returned(call[t])
    /\ call[t].snap.fixData = MultiStepFix(<<"c1", "c2">>, <<"f1", "f2">>)
    /\ Len(call[t].log) = 3
    /\ call[t].log[2] = [op |-> "run", arg |-> "c1", ok |-> TRUE]
    /\ call[t].log[3] = [op |-> "run", arg |-> "c2", ok |-> FALSE]
    /\ ~call[t].result.success

\* The listed steps of a command or fileChange payload and the sandbox call
\* that carries each out.
HasStepList(fixData) ==
  \/ IsTagged(fixData, "command") /\ HasField(fixData, "commands")
  \/ IsTagged(fixData, "fileChange") /\ HasField(fixData, "files")
StepList(fixData) ==
  IF fixData.type = "command" THEN fixData.commands ELSE fixData.files
StepsMade(c) ==
  Made(c, IF c.snap.fixData.type = "command" THEN "run" ELSE "write")
\* Step k is attempted only after steps 1..k-1 succeeded, in listed order,
\* and a failing step is the last call made before the executor returns.
StepsInOrderUntilFailure(c) ==
  /\ InListedOrder(StepsMade(c), StepList(c.snap.fixData))
  /\ NothingAfterFailure(c)
  /\ ~AllOk(c.log) => Returned(c)
EveryListedStepSucceeded(c) ==
  /\ Len(StepsMade(c)) = Len(StepList(c.snap.fixData))
  /\ AllOk(StepsMade(c))

NeedsSandbox(fixData) ==
  \/ IsTagged(fixData, "command")
  \/ IsTagged(fixData, "fileChange")
  \/ IsTagged(fixData, "multiStep")
NoSandboxReference(c) ==
  IF Entered(c) THEN ~HasSandboxId(c.sandboxId) ELSE ~HasSandboxUrl(c.snap)
SandboxIdRequired ==
  { "Error: Sandbox ID required for command execution",
    "Error: Sandbox ID required for file changes",
    "Error: Sandbox ID required for multi-step fixes" }

Faulted(c) ==
  \/ ~AllOk(c.log)
  \/ \E k \in DOMAIN ExecutionPlan(c.snap.fixData, c.sandboxId) :
       ExecutionPlan(c.snap.fixData, c.sandboxId)[k].op = "throw"

\* C19: executeProposedFix raises nothing to its caller, and when a fault
\* happened (a failing lookup, command or write, a null payload, a list
\* that is missing, a missing sandbox id) it returns success = false with a
\* non-empty error description.
C19_ExecutorNeverRaises ==
  \A t \in Tasks :
    Entered(call[t])
    => /\ call[t].outcome = NoError
       /\ call[t].pc \in {"exec", ReturnPc(call[t])}
       /\ (Returned(call[t]) /\ Faulted(call[t]))
            => /\ ~call[t].result.success
               /\ call[t].result.error # Undefined
               /\ Len(call[t].result.error) > 0

\* executeProposedFix has returned failure for a null payload.
C19_NullPayloadReturnsFailure ==
  \E t \in Tasks :
    /\ Returned(call[t])
    /\ call[t].snap.fixData = NullPayload
    /\ call[t].result = ExecFailure("TypeError: Cannot read properties of null")

\* --------------------------------------------------- error-handling claims
\* C21: when a handleError run is over, an error log with a category and a
\* severity of the schema's enums exists for the ERROR entry the run
\* created, whatever the diagnosis backend returned.
C21_EveryFailureHasErrorLog ==
  handler.pc = "done"
  => \E e \in DOMAIN errorLog :
       /\ errorLog[e].messageId = handler.messageId
       /\ errorLog[e].category \in ErrorCategories
       /\ errorLog[e].severity \in ErrorSeverities

\* C23: the steps of one handleError run are sequential: the error log is
\* created from a diagnosis the run already holds; fix generation starts,
\* and a draft is held, only once the error log exists; the fix is created
\* from the draft the run holds, with the status the policy gives it; and
\* the APPROVAL_REQUEST entry exists only once the fix does.
C23_StepsSequential ==
  /\ handler.errorLogId # 0
       => /\ handler.backend # "none"
          /\ handler.errorLogId \in DOMAIN errorLog
          /\ errorLog[handler.errorLogId].analysis = handler.analysis
  /\ (handler.pc \in {"generate", "propose", "request"} \/ handler.draft.found)
       => handler.errorLogId \in DOMAIN errorLog
  /\ (handler.pc = "request" \/ handler.fixId # 0)
       => /\ handler.draft.found
          /\ handler.fixId \in DOMAIN proposedFix
          /\ proposedFix[handler.fixId].errorLogId = handler.errorLogId
          /\ proposedFix[handler.fixId].confidence = handler.draft.confidence
          /\ proposedFix[handler.fixId].status =
               InitialStatus(handler.analysis.severity, handler.draft.confidence)
  /\ \A m \in DOMAIN message :
       message[m].type = "APPROVAL_REQUEST"
         => FixesFor(message[m].content.errorLogId) # {}

\* A run has gone through every step: diagnosis, error log, draft, PENDING
\* fix and approval request.
C23_AllStepsTaken ==
  /\ handler.pc = "done"
  /\ handler.backend = "output"
  /\ handler.errorLogId \in DOMAIN errorLog
  /\ handler.draft.found
  /\ handler.fixId \in DOMAIN proposedFix
  /\ ApprovalRequestsFor(handler.errorLogId) # {}

\* generateFix was called in this run and returned null.
GeneratorReturnedNull ==
  /\ handler.errorLogId # 0
  /\ ShouldGenerateFix(handler.analysis)
  /\ handler.pc # "generate"
  /\ ~handler.draft.found

\* C25: when generateFix returns null the run is over at once: it returns
\* the ERROR entry it created first, its error log is kept, and it has
\* created no fix, no APPROVAL_REQUEST entry and no further entry (the
\* generic fallback entry in particular).
C25_NullDraftAbsorbed ==
  GeneratorReturnedNull
  => /\ handler.pc = "done"
     /\ handler.returned = handler.messageId
     /\ message[handler.messageId].content.kind = "error_occurred"
     /\ Len(message) = handler.messageId
     /\ errorLog[handler.errorLogId].messageId = handler.messageId
     /\ FixesFor(handler.errorLogId) = {}
     /\ ApprovalRequestsFor(handler.errorLogId) = {}

\* A run diagnosed auto-fixable with confidence 0.9 got a null draft and is
\* over, with its error log and nothing else.
C25_NullDraftRunOver ==
  /\ GeneratorReturnedNull
  /\ handler.pc = "done"
  /\ handler.analysis.confidence = 9
  /\ Len(errorLog) = handler.errorLogId
  /\ proposedFix = << >>

\* ------------------------------------------------------ orchestrator claims
\* The entries the task has appended to the conversation.
EntriesOfAttempt == { m \in DOMAIN message : m > handler.base }

\* C22: no generation attempt ends in a fault that nothing handles, and an
\* attempt that is over has appended at least one RESULT or ERROR entry.
C22_AttemptEndsWithEntry ==
  /\ handler.pc # "raised"
  /\ handler.pc = "done"
       => \E m \in EntriesOfAttempt : message[m].type \in {"RESULT", "ERROR"}

\* C24: an attempt whose agent run yields no summary or no files goes into
\* handleError and appends no RESULT entry and no fragment; and the context
\* recorded with an error log carries executionStep "agent-execution" when
\* handleError was called from the catch block and no executionStep when it
\* was called from the no-output branch.
C24_NoOutputIsHandledAsError ==
  /\ handler.agent \in {"no-summary", "no-files"}
       => /\ handler.site \in {"no-output", "catch"}
          /\ handler.pc \notin {"result", "prepare", "fragment", "describe"}
          /\ \A m \in EntriesOfAttempt :
               message[m].type # "RESULT" /\ ~message[m].fragment.present
  /\ \A e \in DOMAIN errorLog :
       /\ errorLog[e].site = "catch" => errorLog[e].executionStep = "agent-execution"
       /\ errorLog[e].site = "no-output" => errorLog[e].executionStep = "none"

\* An attempt whose agent run left a summary but no files is over: its error
\* log carries no executionStep and the conversation has no RESULT entry.
C24_NoFilesAttemptOver ==
  /\ handler.pc = "done"
  /\ handler.agent = "no-files"
  /\ handler.errorLogId \in DOMAIN errorLog
  /\ errorLog[handler.errorLogId].executionStep = "none"
  /\ \A m \in EntriesOfAttempt : message[m].type # "RESULT"

\* C30: every error log hangs on one existing conversation entry, no two
\* error logs hang on the same entry, and no error log has more than one
\* proposed fix.
C30_OneParentAtMostOneFix ==
  /\ \A e \in DOMAIN errorLog : errorLog[e].messageId \in DOMAIN message
  /\ \A e1, e2 \in DOMAIN errorLog :
       e1 # e2 => errorLog[e1].messageId # errorLog[e2].messageId
  /\ \A e \in DOMAIN errorLog : Cardinality(FixesFor(e)) <= 1

\* handleError has run twice in an attempt (its first run raised after it
\* had created its fix) and the store holds two error logs with a fix each.
C30_TwoLogsTwoFixes ==
  /\ Len(errorLog) = 2
  /\ Len(proposedFix) = 2
  /\ FixesFor(1) # {} /\ FixesFor(2) # {}
  /\ handler.pc = "done"

\* ------------------------------------------------------------ query claims
\* The fixes of a project, as far as a user owns it.
FixesOfProject(projectId, user) ==
  { i \in DOMAIN proposedFix :
      LET parent == message[errorLog[proposedFix[i].errorLogId].messageId]
      IN parent.projectId = projectId /\ ProjectOwner[parent.projectId] = user }
Elements(seq) == { seq[k] : k \in 1..Len(seq) }
IsQuery(c) == c.op \in {"getPendingApprovals", "getAllApprovals"}

\* C26: a getPendingApprovals call returns, each once, exactly the PENDING
\* fixes whose error log's message is in the project asked for, when the
\* caller owns that project, and getAllApprovals those of every status;
\* neither returns a fix of a project the caller does not own, and neither
\* changes the store.
C26_ListsAreOwnerScoped ==
  [][ \A t \in Tasks :
        (call'[t] # call[t] /\ IsQuery(call'[t]))
        => LET c == call'[t]
               mine == FixesOfProject(c.projectId, c.user)
           IN /\ store' = store
              /\ Cardinality(Elements(c.rows)) = Len(c.rows)
              /\ c.op = "getAllApprovals" => Elements(c.rows) = mine
              /\ c.op = "getPendingApprovals" =>
                   Elements(c.rows) =
                     { i \in mine : proposedFix[i].status = "PENDING" }
              /\ \A k \in 1..Len(c.rows) :
                   ProjectOwner[message[errorLog[proposedFix[c.rows[k]].errorLogId]
                                          .messageId].projectId] = c.user ]_vars

\* The store holds an APPROVED and a PENDING fix of project p1, and the
\* second query, getAllApprovals("p1") by the user who does not own p1, has
\* returned nothing.
C26_OwnerSeesBothOtherNone ==
  /\ proposedFix[1].status = "APPROVED" /\ proposedFix[2].status = "PENDING"
  /\ call["t1"].op = "getAllApprovals" /\ call["t1"].projectId = "p1"
  /\ call["t1"].user = "u2" /\ call["t1"].rows = << >>
  /\ message[1].projectId = "p1" /\ message[2].projectId = "p1"
  /\ call["t1"].n = 2

\* ----------------------------------------------------------- review claims
\* Task t takes its update step, and its entry step.
Updates(t) == call[t].pc = "update" /\ call'[t].pc = "message"
Appends(t) == call[t].pc = "message" /\ call'[t].pc = "done"
\* The step adds one entry to the conversation and changes no other.
OneEntryAdded ==
  /\ Len(message') = Len(message) + 1
  /\ SubSeq(message', 1, Len(message)) = message
LastEntry == message'[Len(message')]

\* C27: a rejectFix call past its checks writes REJECTED, the caller as
\* reviewer and the feedback it was given, then appends one RESULT entry
\* with that feedback as the reason, and returns; it makes no call of the
\* executor or of the sandbox at any point.
C27_RejectIsUnconditional ==
  [][ \A t \in Tasks :
        LET c == call[t]
        IN /\ call'[t].op = "reject" =>
                /\ "exec" \notin call'[t].effects
                /\ call'[t].log = << >>
                /\ call'[t].todo = << >>
                /\ call'[t].pc \in {"idle", "update", "message", "done"}
           /\ (c.op = "reject" /\ c.pc \in {"update", "message"} /\ call'[t] # c) =>
                /\ execStarted' = execStarted
                /\ Updates(t) \/ Appends(t)
           /\ (c.op = "reject" /\ Updates(t)) =>
                /\ proposedFix'[c.fixId].status = "REJECTED"
                /\ proposedFix'[c.fixId].reviewedBy = c.user
                /\ proposedFix'[c.fixId].feedback = c.feedback
                /\ c.feedback \notin {Undefined, ""}
                /\ message' = message
           /\ (c.op = "reject" /\ Appends(t)) =>
                /\ OneEntryAdded
                /\ LastEntry.type = "RESULT"
                /\ LastEntry.content.kind = "fix_rejected"
                /\ LastEntry.content.detail = c.feedback
                /\ proposedFix' = proposedFix
                /\ call'[t].outcome = Ok ]_vars

\* A rejection with the reason "why" has returned: the fix is REJECTED with
\* that feedback and the conversation has the entry giving the reason.
C27_RejectionRecorded ==
  \E t \in Tasks :
    /\ call[t].op = "reject" /\ call[t].pc = "done" /\ call[t].outcome = Ok
    /\ proposedFix[call[t].fixId].status = "REJECTED"
    /\ proposedFix[call[t].fixId].reviewedBy = call[t].user
    /\ proposedFix[call[t].fixId].feedback = "why"
    /\ \E m \in DOMAIN message :
         /\ message[m].type = "RESULT"
         /\ message[m].content = [kind |-> "fix_rejected",
                                  description |-> call[t].snap.description,
                                  detail |-> "why"]

\* C28: an approveFix call past its checks writes the caller as reviewer,
\* the time of the review and a feedback text (the one it was given, or
\* "Fix applied successfully" / "Fix failed to apply" by the execution
\* result when it was given none), then appends one RESULT entry telling
\* the outcome, whether the execution succeeded or failed.
C28_ApproveRecordsReview ==
  [][ \A t \in Tasks :
        LET c == call[t]
        IN /\ (c.op = "approve" /\ Updates(t)) =>
                LET row == proposedFix'[c.fixId]
                IN /\ row.reviewedBy = c.user
                   /\ row.reviewedAt = clock /\ row.reviewedAt # 0
                   /\ row.feedback \notin {Undefined, ""}
                   /\ c.feedback \notin {Undefined, ""} => row.feedback = c.feedback
                   /\ (c.feedback \in {Undefined, ""} /\ c.result.success)
                        => row.feedback = "Fix applied successfully"
                   /\ (c.feedback \in {Undefined, ""} /\ ~c.result.success)
                        => row.feedback = "Fix failed to apply"
                   /\ ~c.result.success => row.status = "PENDING"
                   /\ message' = message
           /\ (c.op = "approve" /\ Appends(t)) =>
                /\ OneEntryAdded
                /\ LastEntry.type = "RESULT"
                /\ LastEntry.content.kind =
                     (IF c.result.success THEN "fix_applied" ELSE "fix_failed")
                /\ proposedFix' = proposedFix
           /\ (c.op = "approve" /\ c.pc \in {"update", "message"} /\ call'[t] # c)
                => Updates(t) \/ Appends(t) ]_vars

\* An approval given without feedback has returned after a failed apply:
\* the fix is PENDING, with its reviewer, the review time and the
\* synthesized feedback, and the conversation has the failure entry.
C28_FailedApplyCarriesReview ==
  \E t \in Tasks :
    /\ call[t].op = "approve" /\ call[t].pc = "done" /\ call[t].outcome = Ok
    /\ call[t].feedback = Undefined /\ ~call[t].result.success
    /\ proposedFix[call[t].fixId].status = "PENDING"
    /\ proposedFix[call[t].fixId].reviewedBy = call[t].user
    /\ proposedFix[call[t].fixId].reviewedAt # 0
    /\ proposedFix[call[t].fixId].feedback = "Fix failed to apply"
    /\ \E m \in DOMAIN message :
         message[m].type = "RESULT" /\ message[m].content.kind = "fix_failed"

\* ------------------------------------------------------------ audit claims
\* C29: no step of handleError, approveFix or rejectFix changes or removes
\* an ErrorLog row that exists, or an APPROVAL_REQUEST entry that exists,
\* whatever the status of the fix it asks about.
C29_AuditRecordsAppendOnly ==
  [][ /\ Len(errorLog') >= Len(errorLog)
      /\ \A e \in DOMAIN errorLog : errorLog'[e] = errorLog[e]
      /\ Len(message') >= Len(message)
      /\ \A m \in DOMAIN message :
           message[m].type = "APPROVAL_REQUEST" => message'[m] = message[m] ]_vars

\* A fix with an APPROVAL_REQUEST entry has been rejected by a call that
\* has returned: the entry and the error log are still as handleError
\* wrote them.
C29_RequestKeptAfterReject ==
  \E t \in Tasks :
    /\ call[t].op = "reject" /\ call[t].pc = "done" /\ call[t].outcome = Ok
    /\ proposedFix[call[t].fixId].status = "REJECTED"
    /\ LET e == proposedFix[call[t].fixId].errorLogId
       IN /\ errorLog[e].analysis = Diagnosis("LOGIC", "HIGH", TRUE, 9)
          /\ \E m \in DOMAIN message :
               /\ message[m].type = "APPROVAL_REQUEST"
               /\ message[m].content.errorLogId = e
               /\ message[m].content.kind = "approval_request"

\* ----------------------------------------------------- behaviour claims
\* Task t makes a sandbox call (a command run or a file write) in this step.
SandboxCallBy(t) ==
  /\ Len(call'[t].log) = Len(call[t].log) + 1
  /\ LET made == call'[t].log[Len(call'[t].log)]
     IN made.ok /\ made.op # "getSandbox"

OwnerOfFix(i) ==
  ProjectOwner[message[errorLog[proposedFix[i].errorLogId].messageId].projectId]

\* C32: a reviewer written to a fix is the owner of the fix's project, and
\* every step that changes a row of ProposedFix, starts the executor on a
\* fix or makes a sandbox call for it is a step of a call made by that
\* owner.
C32_OnlyOwnerActsOnFix ==
  [][ \A i \in DOMAIN proposedFix :
        /\ proposedFix'[i].reviewedBy # Undefined
             => proposedFix'[i].reviewedBy = OwnerOfFix(i)
        /\ ( \/ proposedFix'[i] # proposedFix[i]
             \/ execStarted'[i] # execStarted[i]
             \/ \E t \in Tasks :
                  call'[t].fixId = i /\ Len(call'[t].log) > Len(call[t].log) )
           => \E t \in Tasks :
                /\ call'[t] # call[t]
                /\ call'[t].fixId = i
                /\ call'[t].user = OwnerOfFix(i) ]_vars

\* A call by the user who does not own the project was refused, and the
\* fix carries the review of the owner.
C32_StrangerRefusedOwnerReviewed ==
  \E t \in Tasks, u \in Tasks :
    /\ call[t].pc = "done" /\ call[t].fixId = 1
    /\ call[t].user # OwnerOfFix(1)
    /\ call[t].outcome.code = "FORBIDDEN"
    /\ call[u].pc = "done" /\ call[u].fixId = 1 /\ call[u].outcome = Ok
    /\ proposedFix[1].reviewedBy = OwnerOfFix(1)

\* C33: the entries one generation attempt has appended never include both
\* a RESULT entry and an ERROR entry.
C33_SuccessOrFailureNeverBoth ==
  ~ ( /\ \E m \in EntriesOfAttempt : message[m].type = "RESULT"
      /\ \E m \in EntriesOfAttempt : message[m].type = "ERROR" )

\* The outcome entries of a fix in the conversation of its project.
OutcomeEntries(i, kind) ==
  { m \in DOMAIN message :
      /\ message[m].type = "RESULT"
      /\ message[m].projectId =
           message[errorLog[proposedFix[i].errorLogId].messageId].projectId
      /\ message[m].content.kind = kind
      /\ message[m].content.description = proposedFix[i].description }

\* C34: when no approveFix or rejectFix call is in progress, every APPROVED
\* fix has a "fix applied" entry and every REJECTED fix a "fix rejected"
\* entry in the conversation of its project.
C34_LedgerMatchesConversation ==
  (\A t \in Tasks : ~InFlight(t))
  => \A i \in DOMAIN proposedFix :
       /\ proposedFix[i].status = "APPROVED" => OutcomeEntries(i, "fix_applied") # {}
       /\ proposedFix[i].status = "REJECTED" => OutcomeEntries(i, "fix_rejected") # {}

\* The payload has nothing the executor applies: its tag is none of the
\* three, or it is a multiStep payload with neither commands nor files.
NothingToApply(fixData) ==
  /\ fixData # NullPayload
  /\ \/ fixData.type \notin {"command", "fileChange", "multiStep"}
     \/ /\ fixData.type = "multiStep"
        /\ ~HasField(fixData, "commands") /\ ~HasField(fixData, "files")

\* C35: executeProposedFix, having returned for a payload with nothing to
\* apply, has not returned success = true.
C35_NoSuccessWithoutApplying ==
  \A t \in Tasks :
    (Returned(call[t]) /\ NothingToApply(call[t].snap.fixData))
    => ~call[t].result.success

\* ------------------------------------------------------------ client claims
\* C36: in AvatarProvider, isAvatarMode is true only while
\* isAvatarAvailable is true.
C36_AvatarModeImpliesAvailable ==
  provider.isAvatarMode => provider.isAvatarAvailable

\* C37: the step in which AvatarAgent handles the first "ready" message
\* from the avatar origin marks it connected and posts the config message
\* to the iframe.
C37_ReadySendsConfig ==
  [][ (~avatar.isConnected /\ avatar'.isConnected)
      => /\ ~avatar'.isLoading
         /\ avatar'.sent = Append(avatar.sent, ConfigMessage) ]_vars

\* C38: onError("Avatar failed to connect") is called by the timeout only
\* when no "ready" message has been handled by then.
C38_TimeoutErrorOnlyIfNotReady ==
  [][ (avatar.timer = "armed" /\ avatar'.timer = "fired"
       /\ avatar'.errors # avatar.errors)
      => ~avatar.isConnected ]_vars

====
